---- MODULE Spec2Model ----
(***************************************************************************)
(* Model of torchensemble/fusion.py: FusionClassifier and FusionRegressor. *)
(*                                                                         *)
(* An ensemble holds an ordered collection estimators_ of base estimators, *)
(* the static n_estimators, the inferred n_outputs and the nn.Module       *)
(* train/eval flag.  fit is modelled statement by statement (one action    *)
(* for the prologue up to _validate_parameters, then one action per        *)
(* statement of the loop body); predict is one action that runs its whole  *)
(* loop.                                                                   *)
(*                                                                         *)
(* Arithmetic is exact: a tensor row is a sequence of integer numerators   *)
(* over one common denominator, a scalar is a fraction [num, den].         *)
(* Floating-point rounding is outside the model.                           *)
(***************************************************************************)
EXTENDS Integers, Sequences, FiniteSets, TLC

VARIABLES kind, n_estimators, width, estimators_, n_outputs, training,
          pc, call, prev, epoch, batch_idx, output, loss, grad, counts, status

vars == <<kind, n_estimators, width, estimators_, n_outputs, training,
          pc, call, prev, epoch, batch_idx, output, loss, grad, counts, status>>

(* ---------------------------- bounds ----------------------------------- *)

MaxEstimators == 2

MaxHeld == 4

MaxEpochs == 2

(* ------------------------ input domains -------------------------------- *)

Kinds == {"classifier", "regressor"}

Widths == {2}

ParamVals == {0, 1}

LrVals == {0, 1}

WdVals == {-1, 0}

LogIntervals == {0, 2}

OptimizerNames == {"Adam", "LBFGS"}

SupportedOptimizers == {"SGD", "Adam", "RMSprop"}

NoOutputs == 0

(* A loader is [task, batches, dataset_len, classes]: batches is what
   iterating the DataLoader yields (a batch is the sequence of its targets;
   the inputs are not represented because the modelled estimators do not
   look at them), dataset_len is len(loader.dataset).  A classification
   target is a class index, a regression target a row of floats. *)
TrainLoaders ==
  { [name |-> "c2", task |-> "classifier", dataset_len |-> 3,
     batches |-> << <<0, 1>>, <<1>> >>],
    [name |-> "c3", task |-> "classifier", dataset_len |-> 3,
     batches |-> << <<0, 1, 2>> >>],
    [name |-> "r2", task |-> "regressor", dataset_len |-> 3,
     batches |-> << << <<1, 0>>, <<0, 1>> >>, << <<1, 1>> >> >>],
    [name |-> "r3", task |-> "regressor", dataset_len |-> 1,
     batches |-> << << <<0, 1, 0>> >> >>] }

(* "t_drop" is a loader built with drop_last=True: the dataset has three
   examples, the single full batch of two is all that iteration yields. *)
TestLoaders ==
  { [name |-> "t_all0", task |-> "classifier", dataset_len |-> 3,
     batches |-> << <<0, 0>>, <<0>> >>],
    [name |-> "t_mix", task |-> "classifier", dataset_len |-> 3,
     batches |-> << <<0, 1>>, <<1>> >>],
    [name |-> "t_drop", task |-> "classifier", dataset_len |-> 3,
     batches |-> << <<0, 0>> >>],
    [name |-> "q_a", task |-> "regressor", dataset_len |-> 3,
     batches |-> << << <<1, 0>>, <<0, 1>> >>, << <<1, 0>> >> >>],
    [name |-> "q_b", task |-> "regressor", dataset_len |-> 2,
     batches |-> << << <<1, 0>> >>, << <<1, 0>> >> >>],
    [name |-> "q_3", task |-> "regressor", dataset_len |-> 1,
     batches |-> << << <<0, 1, 0>> >> >>] }

(* ------------------------- exact arithmetic ---------------------------- *)

Rat(n, d) == [num |-> n, den |-> d]

RatAdd(a, b) == Rat(a.num * b.den + b.num * a.den, a.den * b.den)

RatEq(a, b) == a.num * b.den = b.num * a.den

RatLeq(a, b) == a.num * b.den <= b.num * a.den

RECURSIVE Pow2(_)
Pow2(n) == IF n = 0 THEN 1 ELSE 2 * Pow2(n - 1)

RECURSIVE SeqSum(_)
SeqSum(s) == IF s = <<>> THEN 0 ELSE Head(s) + SeqSum(Tail(s))

(* ----------------------------- estimators ------------------------------ *)

(* A base estimator is opaque to fusion.py.  It is modelled as a network
   whose output does not depend on the input: in evaluation mode it returns
   the constant row OutVec(w, width) decided by its parameter w; in training
   mode a stochastic layer (dropout) may zero the row, keep says whether it
   survives. *)
OutVec(w, wd) == [j \in 1..wd |-> IF j % 2 = w % 2 THEN 1 ELSE 0]

Estimator(e, mode, keep) ==
  IF mode /\ ~keep THEN [j \in 1..width |-> 0] ELSE OutVec(e.w, width)

(* The in-place add  proba += estimator(X) / n  broadcasts the right-hand
   side only: the estimator's row must have width n_outputs, or width 1. *)
AddBroadcasts(n_out) == width = n_out \/ width = 1

Elem(row, j) == IF Len(row) = 1 THEN row[1] ELSE row[j]

DivisorHeld == Len(estimators_)

(* the denominator of every contribution: "/ self.n_estimators" *)
Divisor == n_estimators

(* the estimators the loop "for estimator in self.estimators_" calls *)
Invoked(ests) == [i \in 1..Len(ests) |-> ests[i].id]

NoForward ==
  [ok |-> FALSE, batch_size |-> 0, invoked |-> <<>>, num |-> <<>>,
   den |-> 1, training |-> FALSE, held |-> 0]

(* proba after the first i estimators of the loop have been added *)
RECURSIVE Accumulate(_, _, _, _, _)
Accumulate(ests, i, n_out, mode, keep) ==
  IF i = 0 THEN [j \in 1..n_out |-> 0]
  ELSE LET acc == Accumulate(ests, i - 1, n_out, mode, keep)
           row == Estimator(ests[i], mode, keep[ests[i].id])
       IN  [j \in 1..n_out |-> acc[j] + Elem(row, j)]

(* FusionClassifier._forward / FusionRegressor.forward on a batch of
   batch_size rows; every row of the result is num / den. *)
Forward(ests, n_out, mode, batch_size, keep) ==
  IF Len(ests) > 0 /\ ~AddBroadcasts(n_out) THEN NoForward
  ELSE [ok |-> TRUE, batch_size |-> batch_size, invoked |-> Invoked(ests),
        num |-> Accumulate(ests, Len(Invoked(ests)), n_out, mode, keep),
        den |-> Divisor, training |-> mode, held |-> Len(ests)]

(* F.softmax(proba, dim=1) as a normalised exponential of the numerators
   (base 2 to the power 1/den instead of e): non-negative, rows sum to 1,
   strictly increasing in each entry. *)
Softmax(f) ==
  [num |-> [j \in 1..Len(f.num) |-> Pow2(f.num[j])],
   den |-> SeqSum([j \in 1..Len(f.num) |-> Pow2(f.num[j])])]

(* tensor.max(1)[1]: the index (from 0) of the first maximal entry *)
ArgMax(row) ==
  (CHOOSE j \in 1..Len(row) :
      /\ \A m \in 1..Len(row) : row[m] <= row[j]
      /\ \A m \in 1..(j - 1) : row[m] < row[j]) - 1

(* pred.eq(target.view(-1)).sum() when every row predicts class pred *)
RECURSIVE Matches(_, _)
Matches(pred, targets) ==
  IF targets = <<>> THEN 0
  ELSE (IF Head(targets) = pred THEN 1 ELSE 0) + Matches(pred, Tail(targets))

(* nn.MSELoss() of rows num/den against the batch's target rows: the mean
   over all batch_size * width entries of the squared difference.
   F.mse_loss broadcasts both operands. *)
MSEBroadcasts(n_out, targets) ==
  \A i \in 1..Len(targets) :
     Len(targets[i]) = n_out \/ Len(targets[i]) = 1 \/ n_out = 1

MSEWidth(n_out, targets) ==
  IF n_out >= Len(targets[1]) THEN n_out ELSE Len(targets[1])

SqErr(f, t, wd) ==
  SeqSum([j \in 1..wd |->
            (Elem(f.num, j) - Elem(t, j) * f.den)
              * (Elem(f.num, j) - Elem(t, j) * f.den)])

MSELoss(f, targets) ==
  LET wd == MSEWidth(Len(f.num), targets)
  IN  Rat(SeqSum([i \in 1..Len(targets) |-> SqErr(f, targets[i], wd)]),
          f.den * f.den * Len(targets) * wd)

(* ------------------------------- predict ------------------------------- *)

NoResult == Rat(-1, 1)

(* FusionClassifier.predict, the loop over the first i test batches:
   correct accumulates the arg-max matches of the softmaxed average. *)
RECURSIVE ClassifierLoop(_, _, _, _, _, _)
ClassifierLoop(batches, i, ests, n_out, mode, keep) ==
  IF i = 0 THEN [ok |-> TRUE, correct |-> 0, fwds |-> <<>>]
  ELSE LET before == ClassifierLoop(batches, i - 1, ests, n_out, mode, keep)
           f      == Forward(ests, n_out, mode, Len(batches[i]), keep)
       IN  IF ~before.ok THEN before
           ELSE IF ~f.ok
             THEN [ok |-> FALSE, correct |-> before.correct,
                   fwds |-> Append(before.fwds, f)]
             ELSE [ok |-> TRUE,
                   correct |-> before.correct
                                 + Matches(ArgMax(Softmax(f).num), batches[i]),
                   fwds |-> Append(before.fwds, f)]

(* len(test_loader.dataset), the denominator of the accuracy *)
Total(loader) == loader.dataset_len

ClassifierPredict(loader, ests, n_out, mode, keep) ==
  LET r == ClassifierLoop(loader.batches, Len(loader.batches),
                          ests, n_out, mode, keep)
  IN  [ok |-> r.ok, fwds |-> r.fwds,
       result |-> IF r.ok THEN Rat(100 * r.correct, Total(loader))
                  ELSE NoResult]

(* FusionRegressor.predict, the loop over the first i test batches:
   mse accumulates the per-batch criterion values. *)
RECURSIVE RegressorLoop(_, _, _, _, _, _)
RegressorLoop(batches, i, ests, n_out, mode, keep) ==
  IF i = 0 THEN [ok |-> TRUE, mse |-> Rat(0, 1), fwds |-> <<>>]
  ELSE LET before == RegressorLoop(batches, i - 1, ests, n_out, mode, keep)
           f      == Forward(ests, n_out, mode, Len(batches[i]), keep)
       IN  IF ~before.ok THEN before
           ELSE IF ~f.ok \/ ~MSEBroadcasts(n_out, batches[i])
             THEN [ok |-> FALSE, mse |-> before.mse,
                   fwds |-> Append(before.fwds, f)]
             ELSE [ok |-> TRUE,
                   mse |-> RatAdd(before.mse, MSELoss(f, batches[i])),
                   fwds |-> Append(before.fwds, f)]

NumExamples(loader) == loader.dataset_len

(* len(test_loader), the number of batches *)
NumBatches(loader) == Len(loader.batches)

RegressorPredict(loader, ests, n_out, mode, keep) ==
  LET r == RegressorLoop(loader.batches, Len(loader.batches),
                         ests, n_out, mode, keep)
  IN  [ok |-> r.ok, fwds |-> r.fwds,
       result |-> IF r.ok THEN Rat(r.mse.num, r.mse.den * NumBatches(loader))
                  ELSE NoResult]

EvalSkipped(cur) == cur

(* self.eval(): the train/eval flag after the first statement of predict *)
Eval(cur) == FALSE

NoCall ==
  [op |-> "none", loader |-> "none", epochs |-> 0, log_interval |-> 0,
   outcome |-> "none", result |-> NoResult, fwds |-> <<>>]

NoPrev == [op |-> "none", loader |-> "none", result |-> NoResult]

Summary(c) ==
  IF c.op = "predict" /\ c.outcome = "ok"
  THEN [op |-> c.op, loader |-> c.loader, result |-> c.result]
  ELSE NoPrev

Masks == [1..Len(estimators_) -> BOOLEAN]

(* the outcomes of the stochastic layers: none in evaluation mode *)
KeepChoices(mode) ==
  IF mode THEN Masks ELSE {[i \in 1..Len(estimators_) |-> TRUE]}

(* predict(test_loader).  Before any fit the instance has no n_outputs
   attribute and the first forward pass raises. *)
Predict(test_loader) ==
  /\ pc = "idle"
  /\ test_loader.task = kind
  /\ training' = Eval(training)
  /\ prev' = Summary(call)
  /\ \E keep \in KeepChoices(training') :
       LET r == IF kind = "classifier"
                THEN ClassifierPredict(test_loader, estimators_, n_outputs,
                                       training', keep)
                ELSE RegressorPredict(test_loader, estimators_, n_outputs,
                                      training', keep)
       IN  call' = IF n_outputs = NoOutputs
                   THEN [NoCall EXCEPT !.op = "predict",
                                       !.loader = test_loader.name,
                                       !.outcome = "attribute_error"]
                   ELSE [NoCall EXCEPT !.op = "predict",
                                       !.loader = test_loader.name,
                                       !.outcome = IF r.ok THEN "ok"
                                                   ELSE "shape_error",
                                       !.result = r.result,
                                       !.fwds = r.fwds]
  /\ UNCHANGED <<kind, n_estimators, width, estimators_, n_outputs, pc,
                 epoch, batch_idx, output, loss, grad, counts, status>>

(* --------------------------------- fit --------------------------------- *)

(* BaseModule._decide_n_outputs: the number of distinct labels of the
   training data (classification) or the width of the first target row
   (regression). *)
LabelSet(loader) ==
  UNION { { loader.batches[b][i] : i \in 1..Len(loader.batches[b]) } :
            b \in 1..Len(loader.batches) }

DecideNOutputs(loader, is_classification) ==
  IF is_classification THEN Cardinality(LabelSet(loader))
  ELSE Len(loader.batches[1][1])

(* utils.set_optimizer raises for an optimizer name it does not know *)
SetOptimizer(optimizer) == optimizer \in SupportedOptimizers

(* BaseModule._validate_parameters: raises on the first invalid value *)
ValidateParameters(lr, weight_decay, epochs, log_interval) ==
  IF ~(lr > 0) THEN "invalid_lr"
  ELSE IF ~(weight_decay >= 0) THEN "invalid_weight_decay"
  ELSE IF ~(epochs > 0) THEN "invalid_epochs"
  ELSE IF ~(log_interval > 0) THEN "invalid_log_interval"
  ELSE "valid"

ValidationErrors ==
  {"invalid_lr", "invalid_weight_decay", "invalid_epochs",
   "invalid_log_interval"}

PrologueEpochsUnchecked(lr, weight_decay, epochs, optimizer, log_interval) ==
  IF ~SetOptimizer(optimizer) THEN "unsupported_optimizer"
  ELSE IF epochs = 0 /\ lr > 0 /\ weight_decay >= 0 /\ log_interval > 0
       THEN "valid"
       ELSE ValidateParameters(lr, weight_decay, epochs, log_interval)

(* How the statements between the construction of the estimators and the
   training loop end: set_optimizer, self.train(), _validate_parameters. *)
Prologue(lr, weight_decay, epochs, optimizer, log_interval) ==
  IF ~SetOptimizer(optimizer) THEN "unsupported_optimizer"
  ELSE ValidateParameters(lr, weight_decay, epochs, log_interval)

NoCounts ==
  [forward |-> 0, loss |-> 0, zero_grad |-> 0, backward |-> 0, step |-> 0]

NoLoss == [criterion |-> "none", input |-> <<>>, den |-> 1, batch |-> 0,
           value |-> NoResult]

NoStatus == [epoch |-> -1, batch |-> -1, correct |-> -1, batch_size |-> -1]

TrainLoader(name) == CHOOSE l \in TrainLoaders : l.name = name

(* self._make_estimator(): a fresh, randomly initialised estimator *)
MakeEstimator(id, w) == [id |-> id, w |-> w]

(* fit(...) up to the head of the training loop: the estimators are
   appended, n_outputs is assigned, the optimizer is built, train mode is
   set and the hyperparameters are validated, in that order. *)
FitBegin(train_loader, lr, weight_decay, epochs, optimizer, log_interval) ==
  /\ pc = "idle"
  /\ train_loader.task = kind
  /\ Len(estimators_) + n_estimators <= MaxHeld
  /\ \E init \in [1..n_estimators -> ParamVals] :
       estimators_' =
         estimators_ \o [i \in 1..n_estimators |->
                           MakeEstimator(Len(estimators_) + i, init[i])]
  /\ n_outputs' = DecideNOutputs(train_loader, kind = "classifier")
  /\ LET how == Prologue(lr, weight_decay, epochs, optimizer, log_interval)
         runs == how = "valid" /\ epochs > 0 /\ Len(train_loader.batches) > 0
     IN  /\ training' = IF how = "unsupported_optimizer" THEN training
                        ELSE TRUE
         /\ pc' = IF runs THEN "forward" ELSE "idle"
         /\ call' = [NoCall EXCEPT !.op = "fit",
                                   !.loader = train_loader.name,
                                   !.epochs = epochs,
                                   !.log_interval =
                                      IF runs THEN log_interval ELSE 0,
                                   !.outcome = IF runs THEN "running"
                                               ELSE IF how = "valid" THEN "ok"
                                               ELSE how]
  /\ prev' = NoPrev
  /\ epoch' = 0
  /\ batch_idx' = 0
  /\ output' = NoForward
  /\ loss' = NoLoss
  /\ counts' = NoCounts
  /\ status' = NoStatus
  /\ UNCHANGED <<kind, n_estimators, width, grad>>

Batch == TrainLoader(call.loader).batches[batch_idx + 1]

(* a statement of the loop body raised: the fit call is aborted *)
Abort(outcome) ==
  /\ pc' = "idle"
  /\ call' = [call EXCEPT !.outcome = outcome, !.log_interval = 0]
  /\ epoch' = 0
  /\ batch_idx' = 0
  /\ output' = NoForward
  /\ loss' = NoLoss

(* output = self._forward(data)  /  output = self.forward(data) *)
ForwardStep ==
  /\ pc = "forward"
  /\ \E keep \in KeepChoices(training) :
       LET f == Forward(estimators_, n_outputs, training, Len(Batch), keep)
       IN  IF f.ok
           THEN /\ output' = f
                /\ pc' = "loss"
                /\ counts' = [counts EXCEPT !.forward = @ + 1]
                /\ UNCHANGED <<call, epoch, batch_idx, loss>>
           ELSE /\ Abort("shape_error")
                /\ UNCHANGED counts
  /\ status' = NoStatus
  /\ UNCHANGED <<kind, n_estimators, width, estimators_, n_outputs, training,
                 prev, grad>>

(* loss = criterion(output, target) *)
LossStep ==
  /\ pc = "loss"
  /\ IF kind = "classifier"
     THEN IF \A i \in 1..Len(Batch) : Batch[i] < n_outputs
          THEN /\ loss' = [criterion |-> "CrossEntropyLoss",
                           input |-> output.num, den |-> output.den,
                           batch |-> batch_idx, value |-> NoResult]
               /\ pc' = "zero_grad"
               /\ counts' = [counts EXCEPT !.loss = @ + 1]
               /\ UNCHANGED <<call, epoch, batch_idx, output>>
          ELSE /\ Abort("target_error")
               /\ UNCHANGED counts
     ELSE IF MSEBroadcasts(n_outputs, Batch)
          THEN /\ loss' = [criterion |-> "MSELoss",
                           input |-> output.num, den |-> output.den,
                           batch |-> batch_idx,
                           value |-> MSELoss(output, Batch)]
               /\ pc' = "zero_grad"
               /\ counts' = [counts EXCEPT !.loss = @ + 1]
               /\ UNCHANGED <<call, epoch, batch_idx, output>>
          ELSE /\ Abort("shape_error")
               /\ UNCHANGED counts
  /\ UNCHANGED <<kind, n_estimators, width, estimators_, n_outputs, training,
                 prev, grad, status>>

(* optimizer.zero_grad() *)
ZeroGrad ==
  /\ pc = "zero_grad"
  /\ grad' = "zero"
  /\ pc' = "backward"
  /\ counts' = [counts EXCEPT !.zero_grad = @ + 1]
  /\ UNCHANGED <<kind, n_estimators, width, estimators_, n_outputs, training,
                 call, prev, epoch, batch_idx, output, loss, status>>

(* loss.backward() *)
BackwardStep ==
  /\ pc = "backward"
  /\ grad' = "populated"
  /\ pc' = "step"
  /\ counts' = [counts EXCEPT !.backward = @ + 1]
  /\ UNCHANGED <<kind, n_estimators, width, estimators_, n_outputs, training,
                 call, prev, epoch, batch_idx, output, loss, status>>

OptimizerStepLastBatchOnly ==
  /\ pc = "step"
  /\ IF batch_idx + 1 < Len(TrainLoader(call.loader).batches)
     THEN UNCHANGED <<estimators_, counts>>
     ELSE /\ \E new \in [1..Len(estimators_) -> ParamVals] :
               estimators_' = [i \in 1..Len(estimators_) |->
                                 [estimators_[i] EXCEPT !.w = new[i]]]
          /\ counts' = [counts EXCEPT !.step = @ + 1]
  /\ pc' = "log"
  /\ UNCHANGED <<kind, n_estimators, width, n_outputs, training, call, prev,
                 epoch, batch_idx, output, loss, grad, status>>

(* optimizer.step(): the optimizer was built over self.parameters(), the
   parameters of every estimator held; what it writes is not constrained. *)
OptimizerStep ==
  /\ pc = "step"
  /\ \E new \in [1..Len(estimators_) -> ParamVals] :
       estimators_' = [i \in 1..Len(estimators_) |->
                         [estimators_[i] EXCEPT !.w = new[i]]]
  /\ pc' = "log"
  /\ counts' = [counts EXCEPT !.step = @ + 1]
  /\ UNCHANGED <<kind, n_estimators, width, n_outputs, training, call, prev,
                 epoch, batch_idx, output, loss, grad, status>>

(* the status line of the batch, then the loop heads: next batch, next
   epoch, or the end of fit *)
LogStep ==
  /\ pc = "log"
  /\ status' = IF batch_idx % call.log_interval = 0
               THEN IF kind = "classifier"
                    THEN [epoch |-> epoch, batch |-> batch_idx,
                          correct |-> Matches(ArgMax(output.num), Batch),
                          batch_size |-> Len(Batch)]
                    ELSE [epoch |-> epoch, batch |-> batch_idx,
                          correct |-> -1, batch_size |-> -1]
               ELSE NoStatus
  /\ IF batch_idx + 1 < Len(TrainLoader(call.loader).batches)
     THEN /\ batch_idx' = batch_idx + 1
          /\ pc' = "forward"
          /\ UNCHANGED <<epoch, call, output, loss>>
     ELSE IF epoch + 1 < call.epochs
     THEN /\ epoch' = epoch + 1
          /\ batch_idx' = 0
          /\ pc' = "forward"
          /\ UNCHANGED <<call, output, loss>>
     ELSE Abort("ok")
  /\ UNCHANGED <<kind, n_estimators, width, estimators_, n_outputs, training,
                 prev, grad, counts>>

(* ------------------------------ behaviour ------------------------------ *)

(* BaseModule.__init__: n_estimators is set, estimators_ is an empty
   ModuleList, n_outputs does not exist yet, nn.Module starts in train
   mode. *)
Init ==
  /\ kind \in Kinds
  /\ n_estimators \in 1..MaxEstimators
  /\ width \in Widths
  /\ estimators_ = <<>>
  /\ n_outputs = NoOutputs
  /\ training = TRUE
  /\ pc = "idle"
  /\ call = NoCall
  /\ prev = NoPrev
  /\ epoch = 0
  /\ batch_idx = 0
  /\ output = NoForward
  /\ loss = NoLoss
  /\ grad = "none"
  /\ counts = NoCounts
  /\ status = NoStatus

Fit ==
  \E train_loader \in {l \in TrainLoaders : l.task = kind}, lr \in LrVals, weight_decay \in WdVals,
     epochs \in 0..MaxEpochs, optimizer \in OptimizerNames,
     log_interval \in LogIntervals :
       FitBegin(train_loader, lr, weight_decay, epochs, optimizer,
                log_interval)

PredictCall ==
  \E test_loader \in {l \in TestLoaders : l.task = kind} :
     Predict(test_loader)

Next ==
  \/ Fit
  \/ ForwardStep
  \/ LossStep
  \/ ZeroGrad
  \/ BackwardStep
  \/ OptimizerStep
  \/ LogStep
  \/ PredictCall

Spec == Init /\ [][Next]_vars

(* ------------------------------- claims -------------------------------- *)

FitReturns == pc = "idle" /\ call'.op = "fit"

PredictReturns == pc = "idle" /\ call'.op = "predict"

Ids == [i \in 1..Len(estimators_) |-> estimators_[i].id]

TestLoader(name) == CHOOSE l \in TestLoaders : l.name = name

PredictDone == pc = "idle" /\ call.op = "predict" /\ call.outcome = "ok"

(* C1: a fit call rejected for a non-positive lr or a negative weight_decay
   leaves the estimator collection, n_outputs and the train/eval mode as
   they were before the call. *)
C1_RejectionHasNoSideEffects ==
  [][ (FitReturns /\ call'.outcome \in {"invalid_lr", "invalid_weight_decay"})
        => /\ estimators_' = estimators_
           /\ n_outputs' = n_outputs
           /\ training' = training ]_vars

(* C2: the collection is empty or has exactly n_estimators members, and an
   estimator once created keeps its place in it. *)
C2_EmptyOrExactlyNEstimators ==
  /\ [](Len(estimators_) \in {0, n_estimators})
  /\ [][ /\ Len(estimators_') >= Len(estimators_)
         /\ \A i \in 1..Len(estimators_) :
              estimators_'[i].id = estimators_[i].id ]_vars

(* C3: n_outputs is set before the first training epoch and no later
   operation, a further fit call included, changes it. *)
C3_NOutputsImmutable ==
  /\ [](pc # "idle" => n_outputs # NoOutputs)
  /\ [][ n_outputs # NoOutputs => n_outputs' = n_outputs ]_vars

(* C4: with estimators returning the constant rows v_i, every row of the
   averaged forward pass is (sum of v_i over the held estimators) divided by
   the number of held estimators. *)
C4_ForwardIsMeanOverHeld ==
  PredictDone =>
    \A b \in 1..Len(call.fwds) : \A j \in 1..Len(call.fwds[b].num) :
       call.fwds[b].num[j] * Len(estimators_)
         = call.fwds[b].den
             * SeqSum([i \in 1..Len(estimators_) |->
                         OutVec(estimators_[i].w, width)[j]])

(* C5: every averaged forward pass of fit and of predict calls each held
   estimator exactly once, in collection order, and divides by n_estimators
   whatever the number of estimators called. *)
C5_AllHeldInvokedDividedByNEstimators ==
  /\ output.ok => /\ output.invoked = Ids
                  /\ output.den = n_estimators
  /\ (pc = "idle" /\ call.op = "predict") =>
       \A b \in 1..Len(call.fwds) :
          call.fwds[b].ok => /\ call.fwds[b].invoked = Ids
                             /\ call.fwds[b].den = n_estimators

C5_Witness ==
  /\ Len(estimators_) = 2 * n_estimators
  /\ n_estimators = 2
  /\ pc = "loss"
  /\ output.ok
  /\ \E j \in 1..Len(output.num) : output.num[j] > n_estimators

(* C6: the accuracy is 100 * matches / (number of examples iterated); it
   lies in [0, 100] and is 100 when every arg-max matches its target. *)
C6_Iterated ==
  SeqSum([b \in 1..Len(TestLoader(call.loader).batches) |->
            Len(TestLoader(call.loader).batches[b])])

C6_MatchCount ==
  SeqSum([b \in 1..Len(call.fwds) |->
            Matches(ArgMax(call.fwds[b].num),
                    TestLoader(call.loader).batches[b])])

C6_AccuracyOverIterated ==
  (PredictDone /\ kind = "classifier") =>
    /\ RatEq(call.result, Rat(100 * C6_MatchCount, C6_Iterated))
    /\ RatLeq(Rat(0, 1), call.result)
    /\ RatLeq(call.result, Rat(100, 1))
    /\ (C6_MatchCount = C6_Iterated => RatEq(call.result, Rat(100, 1)))

(* C7: the regression metric is the unweighted mean of the per-batch MSE
   values; it is never negative and is 0 when every prediction equals its
   target. *)
RECURSIVE C7_SumOfBatchMSE(_)
C7_SumOfBatchMSE(b) ==
  IF b = 0 THEN Rat(0, 1)
  ELSE RatAdd(C7_SumOfBatchMSE(b - 1),
              MSELoss(call.fwds[b], TestLoader(call.loader).batches[b]))

C7_AllExact ==
  \A b \in 1..Len(call.fwds) :
    \A i \in 1..Len(TestLoader(call.loader).batches[b]) :
      \A j \in 1..Len(call.fwds[b].num) :
         call.fwds[b].num[j]
           = TestLoader(call.loader).batches[b][i][j] * call.fwds[b].den

C7_MeanOfBatchMSE ==
  (PredictDone /\ kind = "regressor") =>
    /\ call.result.den > 0
    /\ call.result.num * C7_SumOfBatchMSE(Len(call.fwds)).den
                       * Len(TestLoader(call.loader).batches)
         = C7_SumOfBatchMSE(Len(call.fwds)).num * call.result.den
    /\ call.result.num >= 0
    /\ (C7_AllExact => call.result.num = 0)

C7_Witness ==
  /\ PredictDone
  /\ kind = "regressor"
  /\ call.loader = "q_a"
  /\ ~RatEq(MSELoss(call.fwds[1], TestLoader("q_a").batches[1]),
            MSELoss(call.fwds[2], TestLoader("q_a").batches[2]))

(* C8: a fit call with epochs = 0 ends in an error (the validation error,
   unless the optimizer name was already refused) and executes no forward
   pass, loss, backward pass or optimizer step. *)
C8_ZeroEpochsRejected ==
  (call.op = "fit" /\ call.epochs = 0) =>
    /\ pc = "idle"
    /\ call.outcome \in ValidationErrors \cup {"unsupported_optimizer"}
    /\ counts = NoCounts

C8_Witness ==
  /\ call.op = "fit"
  /\ call.epochs = 0
  /\ call.outcome = "invalid_epochs"

(* C9: predict runs every forward pass in evaluation mode, leaves the
   estimators, their parameters and n_outputs untouched, and returns the
   value the preceding predict call on the same loader returned. *)
C9_PredictReadOnlyIdempotent ==
  /\ []( (pc = "idle" /\ call.op = "predict") =>
           /\ ~training
           /\ \A b \in 1..Len(call.fwds) : ~call.fwds[b].training
           /\ (prev.op = "predict" /\ prev.loader = call.loader) =>
                 /\ call.outcome = "ok"
                 /\ call.result = prev.result )
  /\ [][ PredictReturns => /\ estimators_' = estimators_
                           /\ n_outputs' = n_outputs ]_vars

C9_Witness ==
  /\ PredictDone
  /\ prev.op = "predict"
  /\ prev.loader = call.loader
  /\ counts.step > 0
  /\ Len(estimators_) > 0
  /\ call.result.num > 0

(* C10: within a fit call every batch sees, once each and in this order,
   forward, loss on that forward's output, zero_grad, backward, optimizer
   step; a completed call has made epochs * batches optimizer steps, and
   parameters change in optimizer steps only. *)
C10_Done == epoch * Len(TrainLoader(call.loader).batches) + batch_idx

C10_After(stage) ==
  IF pc \in stage THEN C10_Done + 1 ELSE C10_Done

C10_OneStepPerBatchInOrder ==
  /\ []( pc # "idle" =>
           /\ counts.forward
                = C10_After({"loss", "zero_grad", "backward", "step", "log"})
           /\ counts.loss
                = C10_After({"zero_grad", "backward", "step", "log"})
           /\ counts.zero_grad = C10_After({"backward", "step", "log"})
           /\ counts.backward = C10_After({"step", "log"})
           /\ counts.step = C10_After({"log"})
           /\ (pc \in {"zero_grad", "backward", "step", "log"} =>
                 /\ loss.input = output.num
                 /\ loss.den = output.den
                 /\ loss.batch = batch_idx)
           /\ (pc = "step" => grad = "populated") )
  /\ []( (pc = "idle" /\ call.op = "fit" /\ call.outcome = "ok") =>
           \A c \in DOMAIN counts :
              counts[c]
                = call.epochs * Len(TrainLoader(call.loader).batches) )
  /\ [][ (\E i \in 1..Len(estimators_) :
             estimators_'[i].w # estimators_[i].w)
           => /\ pc = "step"
              /\ counts'.step = counts.step + 1 ]_vars

C10_Witness ==
  /\ pc = "idle"
  /\ call.op = "fit"
  /\ call.outcome = "ok"
  /\ call.epochs = 2
  /\ call.loader = "c2"
  /\ counts.step = 4

====
